---- MODULE Spec2Model ----
(***************************************************************************)
(* Rover: the TLS decorator (TlsDecorator.cpp).  One TlsConnectionDecorator *)
(* with its worker thread, the thread of the caller (Connect, SendData,    *)
(* Break, destruction) and the delivery context of the raw connection      *)
(* (SecureDataReceived, ConnectionBroken).                                 *)
(*                                                                         *)
(* mutex_ is held by the worker from the moment it wakes until it blocks   *)
(* in wakeCondition_.wait, except while dataReceivedDelegate_ runs.  Every *)
(* other locked section is one atomic action that needs the lock free.     *)
(* The TLS engine (libtls) is an external collaborator: an order           *)
(* preserving decryptor with an internal store of decrypted plaintext,     *)
(* whose result for a call is a nondeterministic choice among the results  *)
(* libtls can give in that situation.                                      *)
(*                                                                         *)
(* The program around it (main.cpp) is modelled beside it: the processing  *)
(* of the command line and FetchResourceAndReport with the SIGINT handler. *)
(***************************************************************************)
EXTENDS Integers, Sequences, FiniteSets, TLC

\* Bounds of the model.
MaxRecv == 2
MaxSend == 2
MaxArgs == 3

\* Program constants.
DECRYPTED_BUFFER_SIZE == 65536
TLS_WANT_POLLIN == -2
TLS_WANT_POLLOUT == -3
TLS_ERROR == -1
DEFAULT_HTTP_PORT == 80
DEFAULT_HTTPS_PORT == 443

VARIABLES
    \* TlsDecorator::Connect / the thread of the caller
    callerPc,               \* position of the caller's thread
    connectResult,          \* what TlsDecorator::Connect returned
    \* members of TlsConnectionDecorator
    upperLayer_,            \* "unset", "null" or "conn"
    dataReceivedDelegate_,  \* TRUE when assigned
    brokenDelegate_,        \* TRUE when assigned
    tlsImpl_,               \* "none", "client", "configured", "connected", "freed"
    sendBuffer_,
    receiveBufferSecure_,
    receiveBufferDecrypted_,
    open_,
    canWrite_,
    stopWorker_,
    \* the worker thread
    workerPc,               \* "none","start","top","read","delivering","wait","waiting","exited"
    tryRead,                \* local of Worker()
    notified,               \* a notify_all reached the blocked worker
    \* the TLS engine
    enginePending,          \* plaintext decrypted inside the engine, not yet read
    \* the raw connection
    rawState,               \* "none", "open", "broken", "released"
    rawPc,                  \* "idle" or "brokenCheck" (inside ConnectionBroken)
    breakRequested,         \* upperLayer_->Break(false) was called
    rawSent,                \* bytes passed to upperLayer_->SendData
    ub,                     \* a null upperLayer_ was dereferenced
    \* observation
    recvLog,                \* all ciphertext the raw connection delivered
    delivered,              \* concatenation of the payloads passed to onData
    submitted,              \* concatenation of the payloads passed to SendData
    accepted,               \* concatenation of the bytes tls_write accepted
    onBrokenCount,          \* invocations of the caller's onBroken
    writeRes,               \* what this cycle's write step did ("none" between cycles)
    readRes,                \* what this cycle's read step did ("none" between cycles)
    flow,                   \* "free"; "blocked": tls_write returned WANT_POLLIN and the read
                            \* hook has consumed nothing since; "resumed": it has consumed
                            \* since, no write attempt yet; "rewritten": a write attempt
                            \* was made after that
    workerCount,            \* threads started by Connect
    joinCount,              \* returns of worker_.join()
    connectAgain,           \* "none", or what a further call of Connect returned
    \* what crosses the hooks and reaches the raw connection
    helloSent,              \* the engine has started the handshake
    emitted,                \* all bytes the engine handed to the write callback
    reportedWritten,        \* sum of what the write callback returned
    hookThread,             \* "none", or the thread of the last engine call that can
                            \* invoke the callbacks: "worker" or "destroyer"
    rawBreak,               \* "none", or the last Break the raw connection received:
                            \* "abrupt" or "clean"
    \* the broken notification on its way to the caller
    wasClean,               \* "none", or the argument of the raw connection's call of
                            \* its broken delegate while that call runs: "clean" or
                            \* "unclean"
    onBrokenArg,            \* "none", or what the caller's onBroken was last passed
    workerBroken,           \* invocations of the caller's onBroken made by the worker
    \* main.cpp
    rover                   \* the state of main(), a record of the fields below

callerVars == <<callerPc, connectResult>>
memberVars == <<upperLayer_, dataReceivedDelegate_, brokenDelegate_>>
bufVars == <<sendBuffer_, receiveBufferSecure_, receiveBufferDecrypted_>>
flagVars == <<open_, canWrite_, stopWorker_>>
workerVars == <<workerPc, tryRead, notified>>
engineVars == <<tlsImpl_, enginePending>>
rawVars == <<rawState, rawPc, breakRequested, rawSent, ub>>
obsVars == <<recvLog, delivered, submitted, accepted, onBrokenCount, writeRes, readRes,
             flow>>

lifeVars == <<workerCount, joinCount, connectAgain>>
linkVars == <<helloSent, emitted, reportedWritten, hookThread, rawBreak>>
reportVars == <<wasClean, onBrokenArg, workerBroken>>

\* The fields of rover.
\* position of main(): "idle" (not running), "args", "start", "fetch", "loop",
\* "await", "returned", "exit"
mainPc == rover.mainPc
\* the command-line arguments after the program name
argv == rover.argv
\* index of the next argument
argi == rover.argi
\* ProcessCommandLineArguments: urlString
urlString == rover.urlString
\* environment.url: [scheme, hasPort, port]
url == rover.url
\* "none", or what ProcessCommandLineArguments returned
cliResult == rover.cliResult
\* "none", or the last message given to the diagnostic delegate
diag == rover.diag
\* the shutDown flag
shutDown == rover.shutDown
\* "none", or transaction->state
txState == rover.txState
\* "none", or transaction->state when shutDown was set
txAtShutDown == rover.txAtShutDown
\* calls of AwaitCompletion that returned after shutDown was set
awaitsAfterShutDown == rover.awaitsAfterShutDown

mainVars == <<rover>>

decoratorVars == <<callerVars, memberVars, bufVars, flagVars, workerVars, engineVars, rawVars,
                   obsVars, lifeVars, linkVars, reportVars>>

vars == <<decoratorVars, mainVars>>

Min(a, b) == IF a < b THEN a ELSE b

\* ---------------------------------------------------------------- the engine

\* A ciphertext byte is 0 (handshake, alert or record overhead: it carries no
\* plaintext) or the position it has in the stream (application data).
IsData(c) == c # 0

DecryptByte(c) == c + 10

EncryptByte(p) == p + 20

\* The plaintext of a ciphertext sequence.
RECURSIVE Decrypt(_)
Decrypt(s) ==
    IF s = <<>> THEN <<>>
    ELSE IF IsData(Head(s)) THEN <<DecryptByte(Head(s))>> \o Decrypt(Tail(s))
    ELSE Decrypt(Tail(s))

\* The ciphertext of a plaintext sequence.
Encrypt(s) == [i \in 1..Len(s) |-> EncryptByte(s[i])]

\* ---------------------------------------------------------------- the hooks

\* A slip: the bytes handed over are erased at the tail of the buffer.
ReadCbEraseTail(buf, isOpen, buflen) ==
    LET amt == Min(buflen, Len(buf)) IN
    IF amt = 0 /\ isOpen
    THEN [ret |-> TLS_WANT_POLLIN, data |-> <<>>, rest |-> buf, setCanWrite |-> FALSE]
    ELSE [ret |-> amt,
          data |-> SubSeq(buf, 1, amt),
          rest |-> SubSeq(buf, 1, Len(buf) - amt),
          setCanWrite |-> TRUE]

\* A slip: the read callback sets canWrite_ before it tests for an empty buffer.
ReadCbSetsAlways(buf, isOpen, buflen) ==
    LET amt == Min(buflen, Len(buf)) IN
    IF amt = 0 /\ isOpen
    THEN [ret |-> TLS_WANT_POLLIN, data |-> <<>>, rest |-> buf, setCanWrite |-> TRUE]
    ELSE [ret |-> amt,
          data |-> SubSeq(buf, 1, amt),
          rest |-> IF amt = Len(buf) THEN <<>> ELSE SubSeq(buf, amt + 1, Len(buf)),
          setCanWrite |-> TRUE]

\* The read callback passed to tls_connect_cbs: asked for buflen bytes.
ReadCb(buf, isOpen, buflen) ==
    LET amt == Min(buflen, Len(buf)) IN
    IF amt = 0 /\ isOpen
    THEN [ret |-> TLS_WANT_POLLIN, data |-> <<>>, rest |-> buf, setCanWrite |-> FALSE]
    ELSE [ret |-> amt,
          data |-> SubSeq(buf, 1, amt),
          rest |-> IF amt = Len(buf) THEN <<>> ELSE SubSeq(buf, amt + 1, Len(buf)),
          setCanWrite |-> TRUE]

\* A slip: the write callback forwards without testing open_.
WriteCbAlways(sent, isOpen, bytes) == sent \o bytes

\* The write callback passed to tls_connect_cbs: what reaches the raw connection.
WriteCb(sent, isOpen, bytes) ==
    IF isOpen THEN sent \o bytes ELSE sent

\* What the write callback returns for bytes.
WriteCbReturn(bytes) == Len(bytes)

\* The state after the engine has (buflen > 0) or has not (buflen = 0) asked the
\* read callback for ciphertext during one tls_read or tls_write.
Fed(buflen) ==
    IF buflen = 0
    THEN [called |-> FALSE, ret |-> 0, rest |-> receiveBufferSecure_,
          pending |-> enginePending, canWrite |-> canWrite_, took |-> FALSE]
    ELSE LET r == ReadCb(receiveBufferSecure_, open_, buflen) IN
         [called |-> TRUE, ret |-> r.ret, rest |-> r.rest,
          pending |-> enginePending \o Decrypt(r.data),
          canWrite |-> (canWrite_ \/ r.setCanWrite),
          took |-> (r.ret > 0)]

\* The engine has nothing to return and its last request for ciphertext would block.
Starved(f) ==
    /\ f.called
    /\ f.pending = <<>>
    /\ f.rest = <<>>
    /\ open_

\* What tls_read can return after the feed f.
TlsReadResults(f) ==
    {TLS_ERROR, TLS_WANT_POLLOUT}
    \cup (IF Starved(f) THEN {TLS_WANT_POLLIN} ELSE {})
    \cup (IF f.called /\ f.pending = <<>> /\ f.ret # TLS_WANT_POLLIN THEN {0} ELSE {})
    \cup (1..Min(Len(f.pending), DECRYPTED_BUFFER_SIZE))

\* What tls_write can return after the feed f, offered len bytes.
TlsWriteResults(f, len) ==
    {TLS_ERROR}
    \cup (IF f.called /\ f.rest = <<>> /\ open_ THEN {TLS_WANT_POLLIN} ELSE {})
    \cup (0..len)

\* ---------------------------------------------------------------- the lock

\* A slip: the data delegate is called without lock.unlock().
LockHeldInDelivery == workerPc \in {"none", "start", "waiting", "exited"}

\* mutex_ is free: the worker is not started, blocked in wait, inside the
\* data delegate, or gone.
LockFree == workerPc \in {"none", "start", "waiting", "delivering", "exited"}

\* A slip: the test of worker_.joinable() is left out.
NeverJoinable == FALSE

\* worker_.joinable()
Joinable == workerPc # "none" /\ callerPc \notin {"release", "destroyed"}

\* wakeCondition_.notify_all(): it reaches the worker only if it is blocked.
\* A slip: the condition variable is not notified.
NotifyNone == notified' = notified

NotifyAll == notified' = (notified \/ workerPc = "waiting")

\* upperLayer_->Break(false) and upperLayer_->SendData(...) dereference upperLayer_.
Deref == ub' = (ub \/ upperLayer_ # "conn")

\* The first engine call starts the handshake: the engine emits the ClientHello.
Hello == IF helloSent THEN <<>> ELSE <<0>>

\* One call of tls_write or tls_read by the worker, during which the engine
\* hands out to the write callback (nothing: the callback is not invoked) and
\* after which, when the result is fatal, the worker calls upperLayer_->Break(false).
EngineCall(out, fatal) ==
    /\ helloSent' = TRUE
    /\ hookThread' = "worker"
    /\ emitted' = emitted \o out
    /\ reportedWritten' = reportedWritten + WriteCbReturn(out)
    /\ rawSent' = IF out # <<>> /\ upperLayer_ = "conn"
                  THEN WriteCb(rawSent, open_, out)
                  ELSE rawSent
    /\ breakRequested' = (breakRequested \/ fatal)
    /\ rawBreak' = IF fatal /\ upperLayer_ = "conn" THEN "abrupt" ELSE rawBreak
    /\ ub' = (ub \/ (upperLayer_ # "conn" /\ (fatal \/ (out # <<>> /\ open_))))

DecoratorInit ==
    /\ callerPc = "start"
    /\ connectResult = "pending"
    /\ upperLayer_ = "unset"
    /\ dataReceivedDelegate_ = FALSE
    /\ brokenDelegate_ = FALSE
    /\ tlsImpl_ = "none"
    /\ sendBuffer_ = <<>>
    /\ receiveBufferSecure_ = <<>>
    /\ receiveBufferDecrypted_ = <<>>
    /\ open_ = TRUE
    /\ canWrite_ = TRUE
    /\ stopWorker_ = TRUE
    /\ workerPc = "none"
    /\ tryRead = TRUE
    /\ notified = FALSE
    /\ enginePending = <<>>
    /\ rawState = "none"
    /\ rawPc = "idle"
    /\ breakRequested = FALSE
    /\ rawSent = <<>>
    /\ ub = FALSE
    /\ recvLog = <<>>
    /\ delivered = <<>>
    /\ submitted = <<>>
    /\ accepted = <<>>
    /\ onBrokenCount = 0
    /\ writeRes = "none"
    /\ readRes = "none"
    /\ flow = "free"
    /\ workerCount = 0
    /\ joinCount = 0
    /\ connectAgain = "none"
    /\ helloSent = FALSE
    /\ emitted = <<>>
    /\ reportedWritten = 0
    /\ hookThread = "none"
    /\ rawBreak = "none"
    /\ wasClean = "none"
    /\ onBrokenArg = "none"
    /\ workerBroken = 0

\* environment.url before ProcessCommandLineArguments has set it.
NoUrl == [scheme |-> "", hasPort |-> FALSE, port |-> 0]

\* main() is not running: of its state only the global flag exists.
MainIdle == rover = [mainPc |-> "idle", shutDown |-> FALSE]

\* main() at its first statement, with the given command line.
RoverStart(args) ==
    [mainPc |-> "args", argv |-> args, argi |-> 1, urlString |-> "", url |-> NoUrl,
     cliResult |-> "none", diag |-> "none", shutDown |-> FALSE, txState |-> "none",
     txAtShutDown |-> "none", awaitsAfterShutDown |-> 0]

Init == DecoratorInit /\ MainIdle


\* ---------------------------------------------------------------- TlsDecorator::Connect

\* impl_->upperLayer->Connect(...): the wrapped transport opens the raw
\* connection, bound to SecureDataReceived and ConnectionBroken, or returns null.
UpperConnect ==
    /\ callerPc = "start"
    /\ \E ok \in BOOLEAN : rawState' = IF ok THEN "open" ELSE "none"
    /\ callerPc' = "tlsConnect"
    /\ UNCHANGED <<mainVars, reportVars, lifeVars, linkVars, connectResult, memberVars, bufVars, flagVars, workerVars, engineVars,
                   rawPc, breakRequested, rawSent, ub, obsVars>>

\* TlsConnectionDecorator::Connect up to tls_client().
TlsConnectBegin ==
    /\ callerPc = "tlsConnect"
    /\ ~Joinable
    /\ upperLayer_' = IF rawState = "none" THEN "null" ELSE "conn"
    /\ dataReceivedDelegate_' = TRUE
    /\ brokenDelegate_' = TRUE
    /\ tlsImpl_' = "client"
    /\ callerPc' = "configure"
    /\ UNCHANGED <<mainVars, reportVars, lifeVars, linkVars, connectResult, bufVars, flagVars, workerVars, enginePending, rawVars, obsVars>>

\* tls_configure(): on failure Connect returns false, TlsDecorator::Connect
\* returns nullptr and the decorator is destroyed.
TlsConfigure ==
    /\ callerPc = "configure"
    /\ \E ok \in BOOLEAN :
         IF ok
         THEN /\ tlsImpl_' = "configured"
              /\ callerPc' = "connectCbs"
              /\ UNCHANGED connectResult
         ELSE /\ callerPc' = "dtor"
              /\ connectResult' = "nullptr"
              /\ UNCHANGED tlsImpl_
    /\ UNCHANGED <<mainVars, reportVars, lifeVars, linkVars, memberVars, bufVars, flagVars, workerVars, enginePending, rawVars, obsVars>>

\* tls_connect_cbs() and, on success, the start of the worker.
TlsConnectCbs ==
    /\ callerPc = "connectCbs"
    /\ \E ok \in BOOLEAN :
         IF ok
         THEN /\ tlsImpl_' = "connected"
              /\ stopWorker_' = FALSE
              /\ workerPc' = "start"
              /\ workerCount' = workerCount + 1
              /\ connectResult' = "connection"
              /\ callerPc' = "connected"
         ELSE /\ callerPc' = "dtor"
              /\ connectResult' = "nullptr"
              /\ UNCHANGED <<tlsImpl_, stopWorker_, workerPc, workerCount>>
    /\ UNCHANGED <<mainVars, reportVars, joinCount, connectAgain, linkVars, memberVars, bufVars, open_, canWrite_, tryRead, notified, enginePending,
                   rawVars, obsVars>>

\* ---------------------------------------------------------------- the caller

\* TlsConnectionDecorator::Connect called once more on the connected decorator
\* (one such call is tried): with a joinable worker_ it returns false at once;
\* otherwise it runs as before, to its end.
ConnectAgain ==
    /\ callerPc = "connected"
    /\ connectAgain = "none"
    /\ IF Joinable
       THEN /\ connectAgain' = "refused"
            /\ UNCHANGED <<dataReceivedDelegate_, brokenDelegate_, tlsImpl_, stopWorker_,
                           workerPc, workerCount>>
       ELSE /\ dataReceivedDelegate_' = TRUE
            /\ brokenDelegate_' = TRUE
            /\ \E ok \in BOOLEAN :
                 IF ok
                 THEN /\ tlsImpl_' = "connected"
                      /\ stopWorker_' = FALSE
                      /\ workerPc' = "start"
                      /\ workerCount' = workerCount + 1
                      /\ connectAgain' = "connected"
                 ELSE /\ tlsImpl_' = "client"
                      /\ connectAgain' = "failed"
                      /\ UNCHANGED <<stopWorker_, workerPc, workerCount>>
    /\ UNCHANGED <<mainVars, reportVars, callerVars, upperLayer_, bufVars, open_, canWrite_, tryRead, notified,
                   enginePending, rawVars, obsVars, joinCount, linkVars>>

\* A slip: the bytes are inserted at begin().
InsertAtBegin(buf, data) == data \o buf

\* The bytes appended by insert(end(), data.begin(), data.end()).
InsertAtEnd(buf, data) == buf \o data

\* TlsConnectionDecorator::SendData
SendData ==
    /\ callerPc = "connected"
    /\ LockFree
    /\ Len(submitted) < MaxSend
    /\ \E n \in 1..(MaxSend - Len(submitted)) :
         LET data == [i \in 1..n |-> Len(submitted) + i] IN
         /\ sendBuffer_' = InsertAtEnd(sendBuffer_, data)
         /\ submitted' = submitted \o data
    /\ NotifyAll
    /\ UNCHANGED <<mainVars, reportVars, lifeVars, linkVars, callerVars, memberVars, receiveBufferSecure_, receiveBufferDecrypted_,
                   flagVars, workerPc, tryRead, engineVars, rawVars,
                   recvLog, delivered, accepted, onBrokenCount, writeRes, readRes,
                   flow>>

\* What Break(clean) passes on to upperLayer_->Break.
ForwardedBreak(clean) == "abrupt"

\* TlsConnectionDecorator::Break
\* A slip: Break marks the connection closed itself.
BreakClearsOpen ==
    /\ callerPc = "connected"
    /\ \E clean \in BOOLEAN :
         rawBreak' = IF upperLayer_ = "conn" THEN ForwardedBreak(clean) ELSE rawBreak
    /\ breakRequested' = TRUE
    /\ Deref
    /\ open_' = FALSE
    /\ UNCHANGED <<mainVars, reportVars, lifeVars, helloSent, emitted, reportedWritten, hookThread,
                   callerVars, memberVars, bufVars, canWrite_, stopWorker_, workerVars,
                   engineVars, rawState, rawPc, rawSent, obsVars>>

Break ==
    /\ callerPc = "connected"
    /\ \E clean \in BOOLEAN :
         rawBreak' = IF upperLayer_ = "conn" THEN ForwardedBreak(clean) ELSE rawBreak
    /\ breakRequested' = TRUE
    /\ Deref
    /\ UNCHANGED <<mainVars, reportVars, lifeVars, helloSent, emitted, reportedWritten, hookThread, callerVars, memberVars, bufVars, flagVars, workerVars, engineVars,
                   rawState, rawPc, rawSent, obsVars>>

\* The caller releases its reference: ~TlsConnectionDecorator is entered.
DtorEnter ==
    /\ callerPc = "connected"
    /\ callerPc' = "dtor"
    /\ UNCHANGED <<mainVars, reportVars, lifeVars, linkVars, connectResult, memberVars, bufVars, flagVars, workerVars, engineVars,
                   rawVars, obsVars>>

\* ~TlsConnectionDecorator: the locked section.
DtorBegin ==
    /\ callerPc = "dtor"
    /\ IF Joinable
       THEN /\ LockFree
            /\ stopWorker_' = TRUE
            /\ NotifyAll
            /\ callerPc' = "join"
       ELSE /\ callerPc' = "release"
            /\ UNCHANGED <<stopWorker_, notified>>
    /\ UNCHANGED <<mainVars, reportVars, lifeVars, linkVars, connectResult, memberVars, bufVars, open_, canWrite_, workerPc, tryRead,
                   engineVars, rawVars, obsVars>>

\* worker_.join()
DtorJoin ==
    /\ callerPc = "join"
    /\ workerPc = "exited"
    /\ joinCount' = joinCount + 1
    /\ callerPc' = "release"
    /\ UNCHANGED <<mainVars, reportVars, workerCount, connectAgain, linkVars, connectResult, memberVars, bufVars, flagVars, workerVars, engineVars,
                   rawVars, obsVars>>

\* The members are destroyed: the deleter of tlsImpl_ closes the engine, which
\* may hand a close alert to the write callback, and frees it; the raw
\* connection is released (its release waits for a delivery in progress).
DtorRelease ==
    /\ callerPc = "release"
    /\ rawPc = "idle"
    /\ IF tlsImpl_ = "connected"
       THEN \E notify \in BOOLEAN :
              LET out == IF notify THEN <<0>> ELSE <<>> IN
              /\ hookThread' = "destroyer"
              /\ emitted' = emitted \o out
              /\ reportedWritten' = reportedWritten + WriteCbReturn(out)
              /\ rawSent' = IF out # <<>> /\ upperLayer_ = "conn"
                            THEN WriteCb(rawSent, open_, out)
                            ELSE rawSent
              /\ ub' = (ub \/ (upperLayer_ # "conn" /\ out # <<>> /\ open_))
       ELSE UNCHANGED <<hookThread, emitted, reportedWritten, rawSent, ub>>
    /\ tlsImpl_' = IF tlsImpl_ = "none" THEN "none" ELSE "freed"
    /\ rawState' = IF rawState = "none" THEN "none" ELSE "released"
    /\ callerPc' = "destroyed"
    /\ UNCHANGED <<mainVars, reportVars, lifeVars, helloSent, rawBreak, connectResult, memberVars, bufVars, flagVars,
                   workerVars, enginePending, rawPc, breakRequested, obsVars>>

\* ---------------------------------------------------------------- the raw connection

\* TlsConnectionDecorator::SecureDataReceived
SecureDataReceived ==
    /\ rawState = "open"
    /\ rawPc = "idle"
    /\ LockFree
    /\ Len(recvLog) < MaxRecv
    /\ \E n \in 1..(MaxRecv - Len(recvLog)) : \E isData \in [1..n -> BOOLEAN] :
         LET data == [i \in 1..n |-> IF isData[i] THEN Len(recvLog) + i ELSE 0] IN
         /\ receiveBufferSecure_' = InsertAtEnd(receiveBufferSecure_, data)
         /\ recvLog' = recvLog \o data
    /\ NotifyAll
    /\ UNCHANGED <<mainVars, reportVars, lifeVars, linkVars, callerVars, memberVars, sendBuffer_, receiveBufferDecrypted_, flagVars,
                   workerPc, tryRead, engineVars, rawVars,
                   delivered, submitted, accepted, onBrokenCount, writeRes, readRes,
                   flow>>

\* What the broken delegate is called with: brokenDelegate_(false).
BrokenArgument == "unclean"

\* The raw connection calls its broken delegate with wasClean, which the
\* binder made by std::bind drops: ConnectionBroken() takes no argument.
\* Here the locked section of TlsConnectionDecorator::ConnectionBroken.
ConnectionBrokenLocked ==
    /\ rawState = "open"
    /\ rawPc = "idle"
    /\ LockFree
    /\ \E clean \in BOOLEAN : wasClean' = IF clean THEN "clean" ELSE "unclean"
    /\ open_' = FALSE
    /\ NotifyAll
    /\ rawState' = "broken"
    /\ rawPc' = "brokenCheck"
    /\ UNCHANGED <<mainVars, onBrokenArg, workerBroken, lifeVars, linkVars, callerVars, memberVars, bufVars, canWrite_, stopWorker_, workerPc, tryRead,
                   engineVars, breakRequested, rawSent, ub, obsVars>>

\* ConnectionBroken reports at once when there is no ciphertext buffered.
ReportsAtOnce == receiveBufferSecure_ = <<>> /\ brokenDelegate_

\* TlsConnectionDecorator::ConnectionBroken: the test made and the delegate
\* called after the lock is released.
ConnectionBrokenReport ==
    /\ rawPc = "brokenCheck"
    /\ rawPc' = "idle"
    /\ onBrokenCount' = IF ReportsAtOnce THEN onBrokenCount + 1 ELSE onBrokenCount
    /\ onBrokenArg' = IF ReportsAtOnce THEN BrokenArgument ELSE onBrokenArg
    /\ wasClean' = "none"
    /\ UNCHANGED <<mainVars, workerBroken, lifeVars, linkVars, callerVars, memberVars, bufVars, flagVars, workerVars, engineVars,
                   rawState, breakRequested, rawSent, ub,
                   recvLog, delivered, submitted, accepted, writeRes, readRes,
                   flow>>


\* ---------------------------------------------------------------- the worker

\* The worker thread starts and locks mutex_.
\* A slip: tryRead is initialised false.
WorkerStartIdle ==
    /\ workerPc = "start"
    /\ workerPc' = "top"
    /\ tryRead' = FALSE
    /\ UNCHANGED <<mainVars, reportVars, lifeVars, linkVars, callerVars, memberVars, bufVars, flagVars,
                   notified, engineVars, rawVars, obsVars>>

WorkerStart ==
    /\ workerPc = "start"
    /\ workerPc' = "top"
    /\ tryRead' = TRUE
    /\ UNCHANGED <<mainVars, reportVars, lifeVars, linkVars, callerVars, memberVars, bufVars, flagVars, notified, engineVars, rawVars,
                   obsVars>>

\* A slip: the write step ignores canWrite_.
CanAttemptWriteUnblocked == sendBuffer_ # <<>> /\ open_

\* The guard of the write step.
CanAttemptWrite == sendBuffer_ # <<>> /\ canWrite_ /\ open_

\* A slip: only the first byte is offered.
OfferedHead == SubSeq(sendBuffer_, 1, 1)

\* What the worker offers to tls_write: sendBuffer_.data(), sendBuffer_.size().
Offered == sendBuffer_

\* A slip: the accepted bytes stay in sendBuffer_.
EraseNothing(buf, amount) == buf

\* sendBuffer_ after tls_write accepted amount bytes of it.
EraseAccepted(buf, amount) ==
    IF amount = Len(buf) THEN <<>> ELSE SubSeq(buf, amount + 1, Len(buf))

\* The observation of a write attempt that did not end in WANT_POLLIN.
AfterAttempt(fl) == IF fl = "free" THEN "free" ELSE "rewritten"

\* The write step when tls_write, having fed as f, returns amount.
WriteOutcome(f, amount) ==
    LET taken == IF amount > 0 THEN SubSeq(Offered, 1, amount) ELSE <<>> IN
    /\ receiveBufferSecure_' = f.rest
    /\ enginePending' = f.pending
    /\ EngineCall(Hello \o Encrypt(taken), amount < 0 /\ amount # TLS_WANT_POLLIN)
    /\ IF amount = TLS_WANT_POLLIN
       THEN /\ canWrite_' = FALSE
            /\ writeRes' = "wantpollin"
            /\ flow' = "blocked"
            /\ UNCHANGED <<sendBuffer_, accepted>>
       ELSE IF amount < 0
       THEN /\ canWrite_' = f.canWrite
            /\ writeRes' = "error"
            /\ flow' = AfterAttempt(flow)
            /\ UNCHANGED <<sendBuffer_, accepted>>
       ELSE /\ canWrite_' = f.canWrite
            /\ writeRes' = IF amount = 0 THEN "refused"
                           ELSE IF amount < Len(sendBuffer_) THEN "partial"
                           ELSE "accepted"
            /\ flow' = AfterAttempt(flow)
            /\ sendBuffer_' = EraseAccepted(sendBuffer_, amount)
            /\ accepted' = accepted \o taken

\* Worker(): the loop test and the write step.
WorkerLoop ==
    /\ workerPc = "top"
    /\ IF stopWorker_
       THEN /\ workerPc' = "exited"
            /\ UNCHANGED <<sendBuffer_, receiveBufferSecure_, canWrite_, enginePending,
                           breakRequested, rawSent, ub, accepted, writeRes, flow, linkVars>>
       ELSE /\ workerPc' = "read"
            /\ IF CanAttemptWrite
               THEN \E buflen \in 0..MaxRecv :
                      \E amount \in TlsWriteResults(Fed(buflen), Len(Offered)) :
                        WriteOutcome(Fed(buflen), amount)
               ELSE /\ writeRes' = "skipped"
                    /\ UNCHANGED <<sendBuffer_, receiveBufferSecure_, canWrite_, enginePending,
                                   breakRequested, rawSent, ub, accepted, flow, linkVars>>
    /\ UNCHANGED <<mainVars, reportVars, lifeVars, callerVars, memberVars, receiveBufferDecrypted_, open_, stopWorker_,
                   tryRead, notified, tlsImpl_, rawState, rawPc,
                   recvLog, delivered, submitted, onBrokenCount, readRes>>

\* The guard of the read step.
\* A slip: the read guard does not test tryRead.
CanAttemptReadBufferOnly == receiveBufferSecure_ # <<>>

CanAttemptRead == receiveBufferSecure_ # <<>> \/ tryRead

\* A slip: receiveBufferDecrypted_ is not resized to the amount read.
ProducedUnsized(pending, amount) == pending

\* What receiveBufferDecrypted_ holds after tls_read returned amount > 0 and
\* the buffer was resized to it.
Produced(pending, amount) == SubSeq(pending, 1, amount)

\* The read step when tls_read, having fed as f, returns amount.
ReadOutcome(f, amount) ==
    /\ receiveBufferSecure_' = f.rest
    /\ canWrite_' = f.canWrite
    /\ flow' = IF flow = "blocked" /\ f.took THEN "resumed" ELSE flow
    /\ EngineCall(Hello, amount < 0 /\ amount \notin {TLS_WANT_POLLIN, TLS_WANT_POLLOUT})
    /\ IF amount = TLS_WANT_POLLIN
       THEN /\ readRes' = "wantpollin"
            /\ tryRead' = TRUE
            /\ workerPc' = "wait"
            /\ enginePending' = f.pending
            /\ UNCHANGED <<receiveBufferDecrypted_, delivered>>
       ELSE IF amount = TLS_WANT_POLLOUT
       THEN /\ readRes' = "wantpollout"
            /\ tryRead' = TRUE
            /\ workerPc' = "wait"
            /\ enginePending' = f.pending
            /\ UNCHANGED <<receiveBufferDecrypted_, delivered>>
       ELSE IF amount < 0
       THEN /\ readRes' = "error"
            /\ tryRead' = TRUE
            /\ workerPc' = "wait"
            /\ enginePending' = f.pending
            /\ UNCHANGED <<receiveBufferDecrypted_, delivered>>
       ELSE IF amount > 0
       THEN /\ readRes' = "data"
            /\ tryRead' = TRUE
            /\ receiveBufferDecrypted_' = Produced(f.pending, amount)
            /\ enginePending' = SubSeq(f.pending, amount + 1, Len(f.pending))
            /\ IF dataReceivedDelegate_
               THEN /\ delivered' = delivered \o receiveBufferDecrypted_'
                    /\ workerPc' = "delivering"
               ELSE /\ workerPc' = "checkBroken"
                    /\ UNCHANGED delivered
       ELSE /\ readRes' = "zero"
            /\ tryRead' = FALSE
            /\ workerPc' = "wait"
            /\ enginePending' = f.pending
            /\ UNCHANGED <<receiveBufferDecrypted_, delivered>>

\* Worker(): the read step, up to the call of the data delegate.
WorkerRead ==
    /\ workerPc = "read"
    /\ IF CanAttemptRead
       THEN \E buflen \in 0..MaxRecv :
              \E amount \in TlsReadResults(Fed(buflen)) :
                ReadOutcome(Fed(buflen), amount)
       ELSE /\ readRes' = "skipped"
            /\ workerPc' = "wait"
            /\ UNCHANGED <<receiveBufferSecure_, receiveBufferDecrypted_, canWrite_, tryRead,
                           enginePending, delivered, breakRequested, rawSent, ub, flow,
                           linkVars>>
    /\ UNCHANGED <<mainVars, reportVars, lifeVars, callerVars, memberVars, sendBuffer_, open_, stopWorker_, notified,
                   tlsImpl_, rawState, rawPc,
                   recvLog, submitted, accepted, onBrokenCount, writeRes>>

\* The worker reports broken after a delivery.
ReportsAfterDelivery == receiveBufferSecure_ = <<>> /\ ~open_ /\ brokenDelegate_

\* Worker(): the data delegate returns, the lock is taken again and the
\* broken test is made.
WorkerDelivered ==
    /\ workerPc \in {"delivering", "checkBroken"}
    /\ workerPc' = "wait"
    /\ onBrokenCount' = IF ReportsAfterDelivery THEN onBrokenCount + 1 ELSE onBrokenCount
    /\ onBrokenArg' = IF ReportsAfterDelivery THEN BrokenArgument ELSE onBrokenArg
    /\ workerBroken' = IF ReportsAfterDelivery THEN workerBroken + 1 ELSE workerBroken
    /\ UNCHANGED <<mainVars, wasClean, lifeVars, linkVars, callerVars, memberVars, bufVars, flagVars, tryRead, notified, engineVars,
                   rawVars, recvLog, delivered, submitted, accepted, writeRes, readRes,
                   flow>>

\* A slip: wait returns on any wake-up.
WaitPredicateAlways == TRUE

\* A slip: the predicate does not test stopWorker_.
WaitPredicateNoStop ==
    \/ receiveBufferSecure_ # <<>>
    \/ (sendBuffer_ # <<>> /\ canWrite_)

\* The predicate of wakeCondition_.wait
WaitPredicate ==
    \/ stopWorker_
    \/ receiveBufferSecure_ # <<>>
    \/ (sendBuffer_ # <<>> /\ canWrite_)

\* A slip: wakeCondition_.wait(lock) without a predicate, which blocks
\* whatever arrived during the cycle.
WorkerWaitPlain ==
    /\ workerPc = "wait"
    /\ workerPc' = "waiting"
    /\ notified' = FALSE
    /\ writeRes' = "none"
    /\ readRes' = "none"
    /\ UNCHANGED <<mainVars, reportVars, lifeVars, linkVars, callerVars, memberVars, bufVars, flagVars, tryRead,
                   engineVars, rawVars, recvLog, delivered, submitted, accepted, onBrokenCount,
                   flow>>

\* Worker(): the cycle ends and wakeCondition_.wait is entered with the lock held.
WorkerWait ==
    /\ workerPc = "wait"
    /\ workerPc' = IF WaitPredicate THEN "top" ELSE "waiting"
    /\ notified' = FALSE
    /\ writeRes' = "none"
    /\ readRes' = "none"
    /\ UNCHANGED <<mainVars, reportVars, lifeVars, linkVars, callerVars, memberVars, bufVars, flagVars, tryRead,
                   engineVars, rawVars, recvLog, delivered, submitted, accepted, onBrokenCount,
                   flow>>

\* Worker(): a notification wakes the blocked worker, which takes the lock
\* and tests the predicate again.
WorkerWake ==
    /\ workerPc = "waiting"
    /\ notified
    /\ workerPc' = IF WaitPredicate THEN "top" ELSE "waiting"
    /\ notified' = FALSE
    /\ UNCHANGED <<mainVars, reportVars, lifeVars, linkVars, callerVars, memberVars, bufVars, flagVars, tryRead, engineVars, rawVars,
                   obsVars>>

Worker ==
    \/ WorkerStart
    \/ WorkerLoop
    \/ WorkerRead
    \/ WorkerDelivered
    \/ WorkerWait
    \/ WorkerWake

Next ==
    \/ UpperConnect
    \/ TlsConnectBegin
    \/ TlsConfigure
    \/ TlsConnectCbs
    \/ ConnectAgain
    \/ SendData
    \/ Break
    \/ DtorEnter
    \/ DtorBegin
    \/ DtorJoin
    \/ DtorRelease
    \/ SecureDataReceived
    \/ ConnectionBrokenLocked
    \/ ConnectionBrokenReport
    \/ Worker

Spec == Init /\ [][Next]_vars

\* A call in progress on the caller's thread goes on: the rest of Connect and
\* of the destructor.
CallerProgress ==
    \/ TlsConnectBegin
    \/ TlsConfigure
    \/ TlsConnectCbs
    \/ DtorBegin
    \/ DtorJoin
    \/ DtorRelease

\* Every thread is scheduled: the worker (whose call of the data delegate
\* returns), a ConnectionBroken in progress on the raw connection's thread, a
\* call in progress on the caller's thread.
\* What the caller, the peer and the engine choose to do is not constrained.
FairSpec ==
    /\ Spec
    /\ WF_vars(Worker)
    /\ WF_vars(ConnectionBrokenReport)
    /\ WF_vars(CallerProgress)

\* ---------------------------------------------------------------- main.cpp

\* The strings tried as command-line arguments: the empty string, a string
\* that is no URL, and URLs with and without a scheme default and a port.
ArgStrings ==
    {"", "http://h:x", "https://h", "https://h:80", "http://h", "http://h:8080", "ftp://h", "h"}

\* Sequences of at most n arguments.
ArgLists(n) == UNION {[1..k -> ArgStrings] : k \in 0..n}

\* Uri::ParseFromString on the strings tried: whether it succeeds, and the
\* scheme and port of the URL it leaves in the Uri.
ParseFromString(s) ==
    CASE s = "https://h"     -> [ok |-> TRUE, url |-> [scheme |-> "https", hasPort |-> FALSE, port |-> 0]]
      [] s = "https://h:80"  -> [ok |-> TRUE, url |-> [scheme |-> "https", hasPort |-> TRUE, port |-> 80]]
      [] s = "http://h"      -> [ok |-> TRUE, url |-> [scheme |-> "http", hasPort |-> FALSE, port |-> 0]]
      [] s = "http://h:8080" -> [ok |-> TRUE, url |-> [scheme |-> "http", hasPort |-> TRUE, port |-> 8080]]
      [] s = "ftp://h"       -> [ok |-> TRUE, url |-> [scheme |-> "ftp", hasPort |-> FALSE, port |-> 0]]
      [] s = "h"             -> [ok |-> TRUE, url |-> [scheme |-> "", hasPort |-> FALSE, port |-> 0]]
      [] OTHER               -> [ok |-> FALSE, url |-> NoUrl]

\* ProcessCommandLineArguments: the default port by scheme.
SetDefaultPort(u) ==
    IF u.scheme = "https"
    THEN IF ~u.hasPort THEN [u EXCEPT !.hasPort = TRUE, !.port = DEFAULT_HTTPS_PORT] ELSE u
    ELSE IF u.scheme = "http"
    THEN IF ~u.hasPort THEN [u EXCEPT !.hasPort = TRUE, !.port = DEFAULT_HTTP_PORT] ELSE u
    ELSE u

\* main() starts with some command line.
MainInit ==
    /\ DecoratorInit
    /\ \E args \in ArgLists(MaxArgs) : rover = RoverStart(args)

\* ProcessCommandLineArguments: one turn of the loop over the arguments.
NextArgument ==
    /\ mainPc = "args"
    /\ argi <= Len(argv)
    /\ IF urlString # ""
       THEN rover' = [rover EXCEPT !.diag = "multiple URLs given",
                                   !.cliResult = "false",
                                   !.mainPc = "exit"]
       ELSE rover' = [rover EXCEPT !.urlString = argv[argi],
                                   !.argi = argi + 1]
    /\ UNCHANGED decoratorVars

\* ProcessCommandLineArguments after the loop; on failure main() prints the
\* usage and exits.
ArgumentsDone ==
    /\ mainPc = "args"
    /\ argi > Len(argv)
    /\ IF urlString = ""
       THEN rover' = [rover EXCEPT !.diag = "no URL given",
                                   !.cliResult = "false",
                                   !.mainPc = "exit"]
       ELSE IF ~ParseFromString(urlString).ok
       THEN rover' = [rover EXCEPT !.diag = "bad URL given",
                                   !.cliResult = "false",
                                   !.mainPc = "exit"]
       ELSE rover' = [rover EXCEPT !.url = SetDefaultPort(ParseFromString(urlString).url),
                                   !.cliResult = "true",
                                   !.mainPc = "start"]
    /\ UNCHANGED decoratorVars

\* StartClient: the transport is chosen by the scheme; on failure main()
\* exits.
StartClient ==
    /\ mainPc = "start"
    /\ IF url.scheme = ""
       THEN rover' = [rover EXCEPT !.diag = "no scheme in URL", !.mainPc = "exit"]
       ELSE IF url.scheme \in {"https", "http"}
       THEN rover' = [rover EXCEPT !.mainPc = "fetch"]
       ELSE rover' = [rover EXCEPT !.diag = "unsupported URL scheme", !.mainPc = "exit"]
    /\ UNCHANGED decoratorVars

\* FetchResourceAndReport up to the loop: the request is issued.
FetchBegin ==
    /\ mainPc = "fetch"
    /\ rover' = [rover EXCEPT !.diag = "Fetching",
                              !.txState = "InProgress",
                              !.mainPc = "loop"]
    /\ UNCHANGED decoratorVars

\* FetchResourceAndReport: while (!shutDown), and the report after the loop.
LoopTest ==
    /\ mainPc = "loop"
    /\ IF shutDown
       THEN rover' = [rover EXCEPT !.diag = "Fetch Canceled", !.mainPc = "returned"]
       ELSE rover' = [rover EXCEPT !.mainPc = "await"]
    /\ UNCHANGED decoratorVars

\* The final states of a transaction.
FinalStates == {"Completed", "UnableToConnect", "Broken", "Timeout"}

\* What FetchResourceAndReport reports for a final state.
ReportFor(st) ==
    CASE st = "Completed"       -> "Response"
      [] st = "UnableToConnect" -> "unable to connect"
      [] st = "Broken"          -> "connection broken by server"
      [] st = "Timeout"         -> "timeout waiting for response"
      [] OTHER                  -> diag

\* FetchResourceAndReport: one call of transaction->AwaitCompletion(250 ms)
\* and, when it returns true, the report and the return.
AwaitCompletion ==
    /\ mainPc = "await"
    /\ LET after == IF shutDown THEN awaitsAfterShutDown + 1 ELSE awaitsAfterShutDown
       IN  IF txState # "InProgress"
           THEN rover' = [rover EXCEPT !.diag = ReportFor(txState),
                                       !.mainPc = "returned",
                                       !.awaitsAfterShutDown = after]
           ELSE rover' = [rover EXCEPT !.mainPc = "loop",
                                       !.awaitsAfterShutDown = after]
    /\ UNCHANGED decoratorVars

\* The client ends the transaction.
TransactionEnds ==
    /\ txState = "InProgress"
    /\ \E st \in FinalStates : rover' = [rover EXCEPT !.txState = st]
    /\ UNCHANGED decoratorVars

\* InterruptHandler: SIGINT while main() has the handler installed.
InterruptHandler ==
    /\ mainPc \in {"args", "start", "fetch", "loop", "await"}
    /\ ~shutDown
    /\ rover' = [rover EXCEPT !.shutDown = TRUE, !.txAtShutDown = txState]
    /\ UNCHANGED decoratorVars

MainNext ==
    \/ NextArgument
    \/ ArgumentsDone
    \/ StartClient
    \/ FetchBegin
    \/ LoopTest
    \/ AwaitCompletion
    \/ TransactionEnds
    \/ InterruptHandler

MainSpec == MainInit /\ [][MainNext]_vars

\* The main thread is scheduled, and AwaitCompletion returns when its
\* period has passed.
MainProgress ==
    \/ NextArgument
    \/ ArgumentsDone
    \/ StartClient
    \/ FetchBegin
    \/ LoopTest
    \/ AwaitCompletion

\* When the transaction ends and whether SIGINT arrives is not constrained.
FairMainSpec == MainSpec /\ WF_vars(MainProgress)

\* ---------------------------------------------------------------- the claims

IsPrefix(s, t) == Len(s) <= Len(t) /\ SubSeq(t, 1, Len(s)) = s

\* The worker thread exists and has not left Worker().
WorkerRunning == workerPc \notin {"none", "exited"}

\* This step invokes the caller's onBroken.
OnBrokenInvoked == onBrokenCount' > onBrokenCount

\* This step invokes the caller's onData.
OnDataInvoked == delivered' # delivered

\* This step is a call of tls_write by the worker.
WriteAttempted == workerPc = "top" /\ workerPc' = "read" /\ writeRes' # "skipped"

\* The worker's last step was a tls_write that accepted nothing: it failed or
\* returned 0.
WriteJustRefused == workerPc = "read" /\ writeRes \in {"error", "refused"}

\* C1: over every interleaving of raw-connection events, Send calls and
\* worker cycles, the caller's onBroken is invoked at most once in total,
\* counting the invocation made by ConnectionBroken and those made by the worker.
C1_OnBrokenAtMostOnce == onBrokenCount <= 1

\* C2: whenever onBroken is invoked, secureReceiveBuffer is empty and no
\* onData invocation is still in progress (a chunk the worker took out of the
\* buffer and is delivering with the lock released counts as in progress).
C2_OnBrokenAfterDelivery ==
    [][OnBrokenInvoked => (receiveBufferSecure_' = <<>> /\ workerPc' # "delivering")]_vars

\* C3: once the raw connection has reported broken on a connection whose
\* worker is running and that is not torn down, onBroken is eventually
\* invoked, whatever was buffered and whatever the engine returns.
C3_OnBrokenEventually ==
    (rawPc = "brokenCheck" /\ callerPc = "connected" /\ WorkerRunning /\ workerPc # "start")
        ~> (onBrokenCount > 0 \/ callerPc # "connected")


\* C4: the payloads passed to onData, concatenated, are at every moment a
\* prefix of the decryption of all ciphertext received so far, and together
\* with what the engine holds and what is still buffered they are exactly
\* that decryption: nothing reordered, duplicated or skipped.
C4_ChunkingIndependence ==
    /\ IsPrefix(delivered, Decrypt(recvLog))
    /\ delivered \o enginePending \o Decrypt(receiveBufferSecure_) = Decrypt(recvLog)

\* Two data bytes that arrived around a Send call were delivered in order.
C4_Witness ==
    /\ Len(delivered) >= 2
    /\ delivered = Decrypt(recvLog)
    /\ submitted # <<>>


\* C5: the bytes tls_write accepted, in order, followed by what is left in
\* sendBuffer_, are exactly the bytes submitted, in order; and while the
\* connection stays open and the engine keeps accepting, what was submitted
\* is eventually all handed to the engine, also when one write accepts less
\* than sendBuffer_ holds.
C5_SendFifoLossless ==
    /\ [](accepted \o sendBuffer_ = submitted)
    /\ (sendBuffer_ # <<>> /\ WorkerRunning)
          ~> \/ sendBuffer_ = <<>>
             \/ ~open_
             \/ ~canWrite_
             \/ stopWorker_
             \/ WriteJustRefused

\* A write accepted the first of two submitted bytes and left the second.
C5_Witness ==
    /\ writeRes = "partial"
    /\ accepted = <<1>>
    /\ sendBuffer_ = <<2>>
    /\ submitted = <<1, 2>>

\* C6: after tls_write returned WANT_POLLIN the worker calls tls_write again
\* only after the read hook has consumed ciphertext; and once it has, with
\* sendBuffer_ non-empty on an open connection, a write attempt follows.
C6_WriteBlockedOnRead ==
    /\ [][WriteAttempted => flow # "blocked"]_vars
    /\ (flow = "resumed" /\ sendBuffer_ # <<>> /\ open_ /\ WorkerRunning)
          ~> (flow # "resumed" \/ ~open_ \/ stopWorker_)

\* A write attempt was made after a block and a resume.
C6_Witness == flow = "rewritten" /\ writeRes = "accepted" /\ sendBuffer_ = <<>>


\* The destructor has set stopWorker_.
DestructionBegun ==
    \/ callerPc = "join"
    \/ (callerPc \in {"release", "destroyed"} /\ workerPc = "exited")

\* C7: no caller callback, onData or onBroken, is invoked once destruction
\* has begun (the destructor has set stopWorker_), also when it begins while
\* the worker is delivering onData and when the raw connection reports
\* broken during teardown.
C7_NoCallbackAfterStop ==
    [][(OnBrokenInvoked \/ OnDataInvoked) => ~DestructionBegun]_vars

C9_FailedConnectIsSilent ==
    connectResult = "nullptr"
        => (workerPc = "none" /\ onBrokenCount = 0 /\ delivered = <<>>)

\* C10: when the wrapped transport's Connect returned no connection, the
\* decorator's Connect returns failure and no worker is started.
C10_NoRawNoConnection ==
    upperLayer_ = "null" => (workerPc = "none" /\ connectResult # "connection")

\* A step that starts a worker thread.
WorkerCreated == workerCount' > workerCount

\* C11: at most one worker exists per connection in every reachable state: a
\* worker is created only by the step that ends a successful handshake start,
\* a further Connect on a connection that has a worker returns false and
\* creates none, and the worker is joined exactly once, by the destructor,
\* after it was told to stop.
C11_OneWorker ==
    /\ [](/\ workerCount <= 1
          /\ (workerPc # "none") = (workerCount = 1)
          /\ joinCount <= workerCount
          /\ (joinCount = 1) = (workerCount = 1 /\ callerPc \in {"release", "destroyed"})
          /\ (joinCount = 1 => stopWorker_ /\ workerPc = "exited")
          /\ connectAgain \in {"none", "refused"})
    /\ [][WorkerCreated => (callerPc = "connectCbs" /\ tlsImpl_' = "connected"
                             /\ connectResult' = "connection")]_vars
    /\ [][connectAgain' # connectAgain
            => UNCHANGED <<workerCount, workerPc, memberVars, engineVars, flagVars>>]_vars

\* A connection whose further Connect was refused was torn down: one worker
\* was created and joined.
C11_Witness ==
    /\ callerPc = "destroyed"
    /\ connectAgain = "refused"
    /\ workerCount = 1
    /\ joinCount = 1

\* A step of the caller's thread or of the raw connection's thread that reads
\* or writes sendBuffer_, receiveBufferSecure_, open_, canWrite_ or stopWorker_.
ForeignAccess ==
    \/ SendData
    \/ SecureDataReceived
    \/ ConnectionBrokenLocked
    \/ ConnectionBrokenReport
    \/ (DtorBegin /\ Joinable)

\* The worker evaluates the predicate of wakeCondition_.wait.
PredicateEvaluated == WorkerWait \/ WorkerWake

\* C12: lock discipline: no thread reads or writes sendBuffer_,
\* receiveBufferSecure_, open_, canWrite_ or stopWorker_ while another thread
\* holds mutex_ (each access is made with the lock held), and the worker
\* evaluates its wait predicate holding the lock, so that no other thread's
\* locked section runs during the evaluation.
C12_LockDiscipline ==
    /\ [][ForeignAccess => LockFree]_vars
    /\ [][PredicateEvaluated => (workerPc' = "waiting" \/ ~LockFree')]_vars

\* The worker's last step was a call of tls_write.
WriteJustAttempted == workerPc = "read" /\ writeRes # "skipped"

\* C13: while the data delegate runs mutex_ is free, so a SendData call made
\* then (by the delegate or by another thread) and a raw connection event
\* arriving then are not blocked; the delegate returns; the bytes sent during
\* the delivery are appended to sendBuffer_, and the worker makes a write
\* attempt for them in a later cycle (while the connection is open and
\* writable and the worker is not stopped).
C13_DeliveryUnlocked ==
    /\ [](workerPc = "delivering" => LockFree)
    /\ []((workerPc = "delivering" /\ callerPc = "connected" /\ Len(submitted) < MaxSend)
            => ENABLED SendData)
    /\ []((workerPc = "delivering" /\ rawState = "open" /\ rawPc = "idle")
            => ENABLED ConnectionBrokenLocked)
    /\ [][(workerPc = "delivering" /\ submitted' # submitted)
            => /\ workerPc' = "delivering"
               /\ IsPrefix(sendBuffer_, sendBuffer_')
               /\ IsPrefix(submitted, submitted')
               /\ SubSeq(sendBuffer_', Len(sendBuffer_) + 1, Len(sendBuffer_'))
                    = SubSeq(submitted', Len(submitted) + 1, Len(submitted'))]_vars
    /\ (workerPc = "delivering") ~> (workerPc # "delivering")
    /\ (workerPc = "delivering" /\ sendBuffer_ # <<>>)
          ~> (WriteJustAttempted \/ ~open_ \/ ~canWrite_ \/ stopWorker_)

\* The data delegate is running and SendData was called since it began: the
\* write step of this cycle found sendBuffer_ empty on an open connection that
\* was never blocked, and the worker held the lock from then to the delivery.
C13_Witness ==
    /\ workerPc = "delivering"
    /\ writeRes = "skipped"
    /\ flow = "free"
    /\ open_
    /\ sendBuffer_ = <<1, 2>>

\* C14: Break(clean), for either value of clean, forwards one abrupt Break to
\* the raw connection, makes no engine call, and leaves sendBuffer_,
\* receiveBufferSecure_, open_, canWrite_ and stopWorker_ unchanged.
C14_BreakForwardsAbrupt ==
    [][Break => /\ rawBreak' = "abrupt"
                /\ ~ub'
                /\ UNCHANGED <<sendBuffer_, receiveBufferSecure_, open_, canWrite_, stopWorker_>>
                /\ UNCHANGED <<engineVars, helloSent, emitted, hookThread>>]_vars

\* C15: once the handshake has been started, every engine call that can
\* invoke the callbacks (tls_write, tls_read, and tls_close on release) is
\* made by the worker, and no callback runs after the worker has exited.
C15_EngineOnWorkerOnly ==
    /\ [](hookThread \in {"none", "worker"})
    /\ [][workerPc = "exited" => UNCHANGED <<hookThread, emitted, reportedWritten>>]_vars

\* This step is a call of tls_write or tls_read that failed fatally.
FatalResult ==
    \/ (workerPc = "top" /\ writeRes' = "error")
    \/ (workerPc = "read" /\ readRes' = "error")

\* C16: a fatal result of tls_write or tls_read does not end the worker: the
\* worker calls Break(false) on upperLayer_ and goes on with its cycle,
\* leaving the loop only when stopWorker_ is set; and the failure surfaces:
\* once the raw connection has gone down, onBroken is eventually invoked
\* (unless the caller lets go of the connection first).
C16_FatalSurfaces ==
    /\ [][FatalResult => (workerPc' \in {"read", "wait"} /\ breakRequested')]_vars
    /\ [][(workerPc # "exited" /\ workerPc' = "exited") => stopWorker_]_vars
    /\ ((writeRes = "error" \/ readRes = "error") /\ rawState = "broken"
            /\ callerPc = "connected")
          ~> (onBrokenCount > 0 \/ callerPc # "connected")

\* This step is the write step of a cycle (the loop was not left).
WriteStep == workerPc = "top" /\ workerPc' = "read"

\* C17: the worker calls tls_write exactly in the cycles whose write step
\* finds sendBuffer_ non-empty, canWrite_ true and open_ true, and it offers
\* all of sendBuffer_ (the engine may accept all of it); a cycle that makes no
\* write attempt leaves sendBuffer_ as it is, and nothing but a write attempt
\* and SendData changes sendBuffer_.
C17_WriteGuard ==
    /\ [][WriteStep => ((writeRes' # "skipped")
                         = (sendBuffer_ # <<>> /\ canWrite_ /\ open_))]_vars
    /\ [][(WriteStep /\ writeRes' = "skipped")
            => UNCHANGED <<sendBuffer_, accepted, emitted, rawSent, canWrite_>>]_vars
    /\ [][sendBuffer_' # sendBuffer_ => (WriteAttempted \/ submitted' # submitted)]_vars
    /\ []((workerPc = "top" /\ ~stopWorker_ /\ sendBuffer_ # <<>> /\ canWrite_ /\ open_)
            => ENABLED (WorkerLoop /\ accepted' = accepted \o sendBuffer_))

\* A write attempt that offered two bytes had both accepted and passed on,
\* after the ClientHello, to the raw connection.
C17_Witness ==
    /\ workerPc = "read"
    /\ writeRes = "accepted"
    /\ accepted = <<1, 2>>
    /\ rawSent = <<0, 21, 22>>

\* sendBuffer_ lost exactly its first n bytes, which tls_write accepted.
PrefixRemoved(n) ==
    /\ n <= Len(sendBuffer_)
    /\ Len(sendBuffer_') = Len(sendBuffer_) - n
    /\ \A i \in 1..Len(sendBuffer_') : sendBuffer_'[i] = sendBuffer_[n + i]
    /\ accepted' = accepted \o SubSeq(sendBuffer_, 1, n)

\* C18: one write attempt on sendBuffer_ of length L: when the engine accepts
\* n bytes (0 <= n <= L) exactly the first n bytes are removed and the other
\* L-n keep their order; when it returns TLS_WANT_POLLIN canWrite_ becomes
\* false and sendBuffer_ is unchanged; when it fails fatally sendBuffer_ is
\* unchanged and the raw connection is told to Break(false).
C18_WriteOutcome ==
    [][WriteAttempted =>
         \/ /\ writeRes' \in {"refused", "partial", "accepted"}
            /\ \E n \in 0..Len(sendBuffer_) : PrefixRemoved(n)
            /\ (writeRes' = "refused") = (sendBuffer_' = sendBuffer_)
            /\ (writeRes' = "accepted") = (sendBuffer_' = <<>>)
         \/ /\ writeRes' = "wantpollin"
            /\ ~canWrite_'
            /\ sendBuffer_' = sendBuffer_
         \/ /\ writeRes' = "error"
            /\ sendBuffer_' = sendBuffer_
            /\ rawBreak' = "abrupt"]_vars

\* This step took ciphertext out of receiveBufferSecure_.
CiphertextTaken == receiveBufferSecure_' # receiveBufferSecure_ /\ recvLog' = recvLog

\* C19: the read callback, asked for k bytes (k >= 1) with
\* receiveBufferSecure_ of length m: with m = 0 and open_ it returns
\* TLS_WANT_POLLIN and changes nothing; with m = 0 and open_ false it returns
\* 0; otherwise it returns min(k, m), hands the engine the first min(k, m)
\* bytes and leaves the others in the buffer in their order.  And every step
\* that takes ciphertext out of the buffer is such a call.
C19_ReadHook ==
    /\ [](\A k \in 1..(MaxRecv + 1) :
            LET m == Len(receiveBufferSecure_)
                r == ReadCb(receiveBufferSecure_, open_, k)
            IN  /\ (m = 0 /\ open_)
                     => /\ r.ret = TLS_WANT_POLLIN
                        /\ r.data = <<>>
                        /\ r.rest = receiveBufferSecure_
                        /\ ~r.setCanWrite
                /\ (m = 0 /\ ~open_) => (r.ret = 0 /\ r.data = <<>> /\ r.rest = <<>>)
                /\ m > 0
                     => /\ r.ret = Min(k, m)
                        /\ r.data = SubSeq(receiveBufferSecure_, 1, Min(k, m))
                        /\ r.rest = SubSeq(receiveBufferSecure_, Min(k, m) + 1, m))
    /\ [][CiphertextTaken =>
            \E n \in 1..Len(receiveBufferSecure_) :
               /\ receiveBufferSecure_' = SubSeq(receiveBufferSecure_, n + 1,
                                                  Len(receiveBufferSecure_))
               /\ delivered' \o enginePending'
                    = delivered \o enginePending
                        \o Decrypt(SubSeq(receiveBufferSecure_, 1, n))]_vars

\* The callback was asked for one byte with two buffered: the engine holds the
\* plaintext of the first and the second is still in the buffer.
C19_Witness ==
    /\ recvLog = <<1, 2>>
    /\ receiveBufferSecure_ = <<2>>
    /\ enginePending = <<11>>
    /\ delivered = <<>>

\* C20: every invocation of the write callback passes exactly the bytes the
\* engine handed to it on to the raw connection's SendData, in the order of
\* the invocations, and reports all of them as written: what the raw
\* connection was given is at every moment all the engine has emitted, and
\* nothing is reported as written that was not passed on.
C20_WriteHookForwards ==
    /\ rawSent = emitted
    /\ reportedWritten = Len(rawSent)

\* This step is the worker going on from wakeCondition_.wait to the loop test.
Resumed == workerPc \in {"wait", "waiting"} /\ workerPc' = "top"

\* C21: every cycle ends in wakeCondition_.wait, and the worker goes on from
\* it only in a state where stopWorker_ is true, or receiveBufferSecure_ is
\* non-empty, or sendBuffer_ is non-empty and canWrite_ is true; it leaves
\* its loop only when stopWorker_ is true.
C21_WaitPredicate ==
    /\ [][Resumed => \/ stopWorker_
                     \/ receiveBufferSecure_ # <<>>
                     \/ (sendBuffer_ # <<>> /\ canWrite_)]_vars
    /\ [][(workerPc # "top" /\ workerPc' = "top")
            => workerPc \in {"start", "wait", "waiting"}]_vars
    /\ [][(workerPc \in {"read", "delivering", "checkBroken"} /\ workerPc' # workerPc)
            => workerPc' \in {"delivering", "checkBroken", "wait"}]_vars
    /\ [][(workerPc # "exited" /\ workerPc' = "exited")
            => (workerPc = "top" /\ stopWorker_)]_vars

\* The worker, blocked after a cycle that found nothing to do, was woken by
\* ciphertext and is back at the loop test.
C21_Witness ==
    /\ workerPc = "top"
    /\ helloSent
    /\ ~stopWorker_
    /\ receiveBufferSecure_ # <<>>
    /\ receiveBufferSecure_ = recvLog
    /\ sendBuffer_ = <<>>

\* This step is the read step of a worker cycle.
ReadStep == workerPc = "read" /\ workerPc' # "read"

\* This step is a read step that calls tls_read.
ReadAttempted == ReadStep /\ readRes' # "skipped"

\* C22: the worker calls tls_read in a cycle exactly when
\* receiveBufferSecure_ is non-empty or tryRead is set; tryRead starts set,
\* is set after a read that returned more than 0 bytes, is cleared by a read
\* that returned 0 bytes with no ciphertext left in the buffer, and is
\* changed by nothing but a read; a cycle without a read leaves the buffers,
\* the engine and the delivered bytes alone.
C22_ReadGuard ==
    /\ [](workerPc \in {"none", "start"} => tryRead)
    /\ [][ReadStep => ((readRes' # "skipped") = (receiveBufferSecure_ # <<>> \/ tryRead))]_vars
    /\ [][(ReadStep /\ readRes' = "data") => tryRead']_vars
    /\ [][(ReadStep /\ readRes' = "zero" /\ receiveBufferSecure_' = <<>>) => ~tryRead']_vars
    /\ [][tryRead' # tryRead => ReadAttempted]_vars
    /\ [][(ReadStep /\ readRes' = "skipped")
            => UNCHANGED <<bufVars, engineVars, delivered, emitted, canWrite_, tryRead>>]_vars

\* After bytes were delivered a later read returned 0 and cleared tryRead,
\* and the cycle after that made no read.
C22_Witness ==
    /\ workerPc = "wait"
    /\ readRes = "skipped"
    /\ delivered # <<>>
    /\ ~tryRead

\* This step is the locked section of ConnectionBroken.
BrokenLockedStep == rawPc = "idle" /\ rawPc' = "brokenCheck"

\* This step is the rest of ConnectionBroken, made after the lock is released.
BrokenReportStep == rawPc = "brokenCheck" /\ rawPc' = "idle"

\* C23: the connection-broken event sets open_ to false and wakes the
\* worker; after releasing the lock it calls the broken delegate itself if
\* and only if receiveBufferSecure_ is empty at that moment; it changes
\* neither buffer nor canWrite_.
C23_BrokenEvent ==
    /\ [][BrokenLockedStep
            => /\ ~open_'
               /\ notified' = (notified \/ workerPc = "waiting")
               /\ ~OnBrokenInvoked
               /\ UNCHANGED <<bufVars, canWrite_, stopWorker_, tryRead, engineVars>>]_vars
    /\ [][BrokenReportStep
            => /\ OnBrokenInvoked = (receiveBufferSecure_ = <<>>)
               /\ UNCHANGED <<bufVars, flagVars, tryRead, engineVars>>]_vars

\* C24: SecureDataReceived appends its bytes at the tail of
\* receiveBufferSecure_ and notifies the worker, and SendData appends its
\* bytes at the tail of sendBuffer_ and notifies the worker; each leaves the
\* other buffer, open_, canWrite_ and stopWorker_ unchanged, calls no
\* delegate and makes no engine call.
C24_AppendAndWake ==
    /\ [][recvLog' # recvLog
            => /\ \E n \in 1..MaxRecv :
                    /\ Len(recvLog') = Len(recvLog) + n
                    /\ receiveBufferSecure_'
                         = receiveBufferSecure_ \o SubSeq(recvLog', Len(recvLog) + 1, Len(recvLog'))
               /\ notified' = (notified \/ workerPc = "waiting")
               /\ UNCHANGED <<sendBuffer_, receiveBufferDecrypted_, flagVars, tryRead, engineVars,
                              delivered, onBrokenCount, linkVars, rawSent, breakRequested>>]_vars
    /\ [][submitted' # submitted
            => /\ \E n \in 1..MaxSend :
                    /\ Len(submitted') = Len(submitted) + n
                    /\ sendBuffer_'
                         = sendBuffer_ \o SubSeq(submitted', Len(submitted) + 1, Len(submitted'))
               /\ notified' = (notified \/ workerPc = "waiting")
               /\ UNCHANGED <<receiveBufferSecure_, receiveBufferDecrypted_, flagVars, tryRead,
                              engineVars, delivered, onBrokenCount, linkVars, rawSent,
                              breakRequested>>]_vars

\* Both events reached a blocked worker: ciphertext and plaintext are
\* buffered and the notification is pending.
C24_Witness ==
    /\ workerPc = "waiting"
    /\ notified
    /\ receiveBufferSecure_ = <<1, 2>>
    /\ sendBuffer_ = <<1, 2>>
    /\ accepted = <<>>

\* This step is a read step in which tls_read returned TLS_WANT_POLLIN or
\* TLS_WANT_POLLOUT.
ReadWouldBlock == ReadStep /\ readRes' \in {"wantpollin", "wantpollout"}

\* C25: a read that returns TLS_WANT_POLLIN or TLS_WANT_POLLOUT calls neither
\* delegate, does not call Break on the raw connection and does not change
\* sendBuffer_, open_ or tryRead; the worker goes on to the wait.
C25_WouldBlockIsNoOp ==
    [][ReadWouldBlock
         => /\ workerPc' = "wait"
            /\ ~OnBrokenInvoked
            /\ ~OnDataInvoked
            /\ UNCHANGED <<sendBuffer_, open_, tryRead, breakRequested, rawBreak>>]_vars

\* The read step of the current cycle called tls_read.
ReadJustAttempted ==
    /\ workerPc \in {"wait", "delivering", "checkBroken"}
    /\ readRes \notin {"none", "skipped"}

\* C26 as stated: whenever ciphertext is buffered, or plaintext is buffered
\* while canWrite_ and open_ hold, at any point of a worker cycle, the worker
\* eventually makes a further read attempt, respectively write attempt,
\* unless it is stopped first.
C26_NoLostWakeup_Original ==
    /\ (receiveBufferSecure_ # <<>> /\ WorkerRunning /\ ~ReadJustAttempted)
          ~> (ReadJustAttempted \/ stopWorker_)
    /\ (sendBuffer_ # <<>> /\ canWrite_ /\ open_ /\ WorkerRunning /\ ~WriteJustAttempted)
          ~> (WriteJustAttempted \/ stopWorker_)

\* C26: no wake-up is lost. A blocked worker whose wait predicate holds has a
\* notification pending; whenever ciphertext is buffered the worker
\* eventually makes a further read attempt, unless it is stopped or the
\* engine takes the ciphertext during a write attempt first; whenever
\* plaintext is buffered while canWrite_ and open_ hold the worker eventually
\* makes a further write attempt, unless it is stopped or the raw connection
\* reports broken first.
C26_NoLostWakeup ==
    /\ []((/\ workerPc = "waiting"
           /\ \/ stopWorker_
              \/ receiveBufferSecure_ # <<>>
              \/ (sendBuffer_ # <<>> /\ canWrite_)) => notified)
    /\ (receiveBufferSecure_ # <<>> /\ WorkerRunning /\ ~ReadJustAttempted)
          ~> (ReadJustAttempted \/ stopWorker_ \/ receiveBufferSecure_ = <<>>)
    /\ (sendBuffer_ # <<>> /\ canWrite_ /\ open_ /\ WorkerRunning /\ ~WriteJustAttempted)
          ~> (WriteJustAttempted \/ stopWorker_ \/ ~open_)

\* Plaintext was appended for a worker that had blocked after a cycle on an
\* open, writable connection: the notification is pending.
C26_Witness ==
    /\ workerPc = "waiting"
    /\ notified
    /\ helloSent
    /\ sendBuffer_ # <<>>
    /\ canWrite_
    /\ open_
    /\ receiveBufferSecure_ = <<>>

\* C27: canWrite_ starts true; it goes from true to false only in a write
\* step whose tls_write returned TLS_WANT_POLLIN, and from false to true only
\* in a worker step in which the read callback handed at least one byte of
\* receiveBufferSecure_ to the engine; no other step changes it.
C27_CanWriteChanges ==
    /\ [](workerPc \in {"none", "start"} => canWrite_)
    /\ [][(canWrite_ /\ ~canWrite_') => (WriteStep /\ writeRes' = "wantpollin")]_vars
    /\ [][(~canWrite_ /\ canWrite_')
            => /\ WriteStep \/ ReadAttempted
               /\ CiphertextTaken
               /\ Len(receiveBufferSecure_') < Len(receiveBufferSecure_)]_vars

\* canWrite_ was cleared by a tls_write that returned TLS_WANT_POLLIN and set
\* again by a read that took the ciphertext that arrived afterwards.
C27_Witness ==
    /\ flow = "resumed"
    /\ canWrite_
    /\ workerPc = "wait"
    /\ readRes # "none"
    /\ receiveBufferSecure_ = <<>>
    /\ recvLog # <<>>

\* This step is the worker's return from the data delegate: the lock is taken
\* again and the broken test is made.
DeliveryDone == workerPc \in {"delivering", "checkBroken"} /\ workerPc' = "wait"

\* C28: after the worker has delivered decrypted bytes and taken the lock
\* again it calls the broken delegate if and only if receiveBufferSecure_ is
\* empty and open_ is false at that point, and over all cycles of the
\* connection it does so at most once.
C28_WorkerReportsBroken ==
    /\ [][DeliveryDone => (OnBrokenInvoked = (receiveBufferSecure_ = <<>> /\ ~open_))]_vars
    /\ [][workerBroken' # workerBroken => DeliveryDone]_vars
    /\ [](workerBroken <= 1)

\* C29: the caller's onBroken is passed what the raw connection passed to its
\* broken delegate: whenever onBroken is invoked while the raw connection's
\* broken call runs, its argument equals that call's wasClean, so a graceful
\* peer close reaches the caller as clean.
C29_BrokenArgumentFaithful ==
    [][(OnBrokenInvoked /\ wasClean # "none") => onBrokenArg' = wasClean]_vars

\* C30: open_ starts true, goes from true to false only in the locked section
\* of ConnectionBroken, and is never set back to true; a Break requested by
\* the caller and an abort requested by the worker after a fatal engine
\* result leave open_ as it is.
C30_OpenMonotone ==
    /\ [](rawState \in {"none", "open"} => open_)
    /\ [][open_' # open_ => (open_ /\ ~open_' /\ BrokenLockedStep)]_vars
    /\ [][~open_ => ~open_']_vars
    /\ [][(breakRequested' /\ ~BrokenLockedStep) => open_' = open_]_vars

\* The caller or the worker asked the raw connection to break, open_ was
\* still true after that, and the raw connection's broken notification then
\* cleared it.
C30_Witness ==
    /\ ~open_
    /\ breakRequested
    /\ rawBreak = "abrupt"
    /\ rawState = "broken"
    /\ readRes = "error"

\* C31: once open_ is false nothing more is passed to the raw connection's
\* SendData: a write step made then calls no tls_write, and bytes the engine
\* hands to the write callback then (from tls_read or tls_close) are not
\* forwarded.
C31_NoSendAfterBroken ==
    /\ [][~open_ => rawSent' = rawSent]_vars
    /\ [][(WriteStep /\ ~open_)
            => (writeRes' = "skipped" /\ UNCHANGED <<sendBuffer_, accepted, emitted>>)]_vars
    /\ [][(BrokenLockedStep \/ BrokenReportStep) => rawSent' = rawSent]_vars

\* The raw connection reported broken with plaintext waiting: the write step
\* was skipped, and what the engine emitted in the read after it was not
\* forwarded.
C31_Witness ==
    /\ ~open_
    /\ workerPc = "wait"
    /\ writeRes = "skipped"
    /\ sendBuffer_ # <<>>
    /\ emitted = <<0>>
    /\ rawSent = <<>>
    /\ upperLayer_ = "conn"

\* C32: whenever stopWorker_ is false, receiveBufferSecure_ is empty and the
\* write step cannot run (sendBuffer_ empty, or canWrite_ false, or open_
\* false), the wait predicate is false, and the worker does not go on from
\* the wait in such a state.
C32_NoSpin ==
    /\ []((/\ WorkerRunning
           /\ ~stopWorker_
           /\ receiveBufferSecure_ = <<>>
           /\ (sendBuffer_ = <<>> \/ ~canWrite_ \/ ~open_)) => ~WaitPredicate)
    /\ [][(/\ Resumed
           /\ ~stopWorker_
           /\ receiveBufferSecure_ = <<>>) => CanAttemptWrite]_vars

C34_HandshakeDriven ==
    /\ [](workerPc \in {"none", "start"}
            => /\ receiveBufferSecure_ = recvLog
               /\ tryRead
               /\ rawState = "open" => open_
               /\ rawState = "broken" => ~open_)
    /\ [][(workerPc = "start" /\ workerPc' # "start") => (workerPc' = "top" /\ tryRead')]_vars
    /\ [][(ReadStep /\ tryRead) => ReadAttempted]_vars
    /\ (workerPc = "start" /\ ~stopWorker_) ~> (ReadJustAttempted \/ stopWorker_)

\* Ciphertext and the broken notification both arrived before the worker's
\* first step; its first cycle skipped the write and made a read attempt in
\* which the engine took that ciphertext.
C34_Witness ==
    /\ workerPc = "wait"
    /\ readRes \notin {"none", "skipped"}
    /\ writeRes = "skipped"
    /\ ~open_
    /\ recvLog # <<>>
    /\ receiveBufferSecure_ = <<>>
    /\ sendBuffer_ = <<>>
    /\ submitted = <<>>
    /\ delivered = <<>>
    /\ tryRead

\* ---------------------------------------------------------------- C35

\* The URL arguments of a command line: an empty string names no URL.
UrlArguments(args) == SelectSeq(args, LAMBDA a : a # "")

\* ProcessCommandLineArguments returns in this step.
CliReturns == mainPc = "args" /\ mainPc' # "args"

\* C35: command-line processing succeeds exactly when one URL argument is
\* given and it parses; two or more URL arguments fail with "multiple URLs
\* given", none with "no URL given", one that does not parse with "bad URL
\* given"; on success a URL without a port gets 443 for https and 80 for
\* http, and a port that was given is kept.
C35_CommandLine ==
    [][CliReturns =>
          LET urls == UrlArguments(argv)
              parsed == ParseFromString(urls[1])
          IN  /\ (cliResult' = "true") <=> (Len(urls) = 1 /\ parsed.ok)
              /\ cliResult' \in {"true", "false"}
              /\ Len(urls) >= 2 => diag' = "multiple URLs given"
              /\ Len(urls) = 0 => diag' = "no URL given"
              /\ (Len(urls) = 1 /\ ~parsed.ok) => diag' = "bad URL given"
              /\ cliResult' = "true" =>
                    /\ url'.scheme = parsed.url.scheme
                    /\ parsed.url.hasPort => url' = parsed.url
                    /\ (~parsed.url.hasPort /\ url'.scheme = "https") =>
                           (url'.hasPort /\ url'.port = DEFAULT_HTTPS_PORT)
                    /\ (~parsed.url.hasPort /\ url'.scheme = "http") =>
                           (url'.hasPort /\ url'.port = DEFAULT_HTTP_PORT)]_vars

\* ---------------------------------------------------------------- C36

\* FetchResourceAndReport returns in this step.
FetchReturns == mainPc \in {"loop", "await"} /\ mainPc' = "returned"

\* FetchResourceAndReport is in its loop.
Fetching == mainPc \in {"loop", "await"}

\* C36: FetchResourceAndReport returns once the transaction has ended, after
\* reporting its final state, or once shutDown is set; "Fetch Canceled" is
\* reported only when shutDown was set before the transaction ended; and
\* after shutDown is set at most one more await period passes before the
\* return.
C36_FetchReturns ==
    /\ [][FetchReturns =>
             \/ txState \in FinalStates /\ diag' = ReportFor(txState)
             \/ shutDown /\ diag' = "Fetch Canceled"]_vars
    /\ [][(FetchReturns /\ diag' = "Fetch Canceled") =>
             (shutDown /\ txAtShutDown \notin FinalStates)]_vars
    /\ [](awaitsAfterShutDown <= 1)
    /\ (Fetching /\ txState \in FinalStates) ~> (mainPc = "returned")
    /\ (Fetching /\ shutDown) ~> (mainPc = "returned")

====
